---- MODULE Spec2Model ----
(***************************************************************************)
(* Calibration core of the Empirical-Galaxy-Model repository: the cost     *)
(* functions of model/calibration/leastsq_fitting.py and of                *)
(* SMF Analysis/leastsq_fitting.py, the weights of calculate_weights, the  *)
(* abundance model of SMF Analysis/smf_modelling.py and the fitting        *)
(* driver lsq_fit.                                                         *)
(*                                                                         *)
(* Numbers.  A float is modelled as an exact rational or one of the IEEE   *)
(* specials, as a record [k, n, d]:                                        *)
(*    k = "fin"  the rational n/d, d > 0, in lowest terms                  *)
(*    k = "inf"  +infinity (n = 1) or -infinity (n = -1)                   *)
(*    k = "nan"  not a number                                              *)
(*    k = "big"  the literal 10^n of the source (1e+30, 1e+10), a finite   *)
(*               float too large for the integers of the checker; it is    *)
(*               only ever returned, never used in arithmetic              *)
(*    k = "log"  log10(n/d) for a positive rational n/d that is not a      *)
(*               power of ten (an irrational, kept symbolic)               *)
(***************************************************************************)
EXTENDS Integers, Sequences, FiniteSets, TLC

----------------------------------------------------------------------------
(* Extended rational arithmetic with numpy's float semantics.              *)

Abs(i) == IF i < 0 THEN -i ELSE i

RECURSIVE GCD(_, _)
GCD(a, b) == IF b = 0 THEN a ELSE GCD(b, a % b)

Rat(n, d) ==
    LET s == IF d < 0 THEN -1 ELSE 1
        g == GCD(Abs(n), Abs(d))
    IN  [k |-> "fin", n |-> (s * n) \div g, d |-> (s * d) \div g]

Num(i) == [k |-> "fin", n |-> i, d |-> 1]
NaN == [k |-> "nan", n |-> 0, d |-> 1]
PosInf == [k |-> "inf", n |-> 1, d |-> 1]
NegInf == [k |-> "inf", n |-> -1, d |-> 1]
Big(e) == [k |-> "big", n |-> e, d |-> 1]

Sgn(x) == IF x.n > 0 THEN 1 ELSE IF x.n < 0 THEN -1 ELSE 0
SignedInf(s) == IF s > 0 THEN PosInf ELSE NegInf

\* np.isfinite
IsFinite(x) == x.k \in {"fin", "big", "log"}

Neg(x) ==
    IF x.k = "nan" THEN NaN
    ELSE IF x.k = "log" THEN [x EXCEPT !.n = x.d, !.d = x.n]
    ELSE [x EXCEPT !.n = -x.n]

Add(x, y) ==
    IF x.k = "nan" \/ y.k = "nan" THEN NaN
    ELSE IF x.k = "inf" /\ y.k = "inf" THEN (IF x.n = y.n THEN x ELSE NaN)
    ELSE IF x.k = "inf" THEN x
    ELSE IF y.k = "inf" THEN y
    ELSE LET g == GCD(x.d, y.d)
         IN  Rat(x.n * (y.d \div g) + y.n * (x.d \div g), (x.d \div g) * y.d)

Sub(x, y) == Add(x, Neg(y))

Mul(x, y) ==
    IF x.k = "nan" \/ y.k = "nan" THEN NaN
    ELSE IF x.k = "inf" \/ y.k = "inf"
         THEN (IF Sgn(x) * Sgn(y) = 0 THEN NaN ELSE SignedInf(Sgn(x) * Sgn(y)))
    ELSE LET g1 == GCD(Abs(x.n), y.d)
             g2 == GCD(Abs(y.n), x.d)
         IN  Rat((x.n \div g1) * (y.n \div g2), (x.d \div g2) * (y.d \div g1))

\* numpy division: x/0 is +-inf (nan for 0/0), x/inf is 0, inf/inf is nan.
Div(x, y) ==
    IF x.k = "nan" \/ y.k = "nan" THEN NaN
    ELSE IF x.k = "inf" /\ y.k = "inf" THEN NaN
    ELSE IF x.k = "inf" THEN SignedInf(IF y.n < 0 THEN -x.n ELSE x.n)
    ELSE IF y.k = "inf" THEN Num(0)
    ELSE IF y.n = 0 THEN (IF x.n = 0 THEN NaN ELSE SignedInf(Sgn(x)))
    ELSE Mul(x, Rat(y.d, y.n))

\* x < y on floats: every comparison with nan is false.
Less(x, y) ==
    IF x.k = "nan" \/ y.k = "nan" THEN FALSE
    ELSE IF x.k = "inf" THEN x.n < 0 /\ ~(y.k = "inf" /\ y.n < 0)
    ELSE IF y.k = "inf" THEN y.n > 0
    ELSE x.n * y.d < y.n * x.d

Greater(x, y) == Less(y, x)
LessEq(x, y) == Less(x, y) \/ (x = y /\ x.k # "nan")

RECURSIVE IntPow(_, _)
IntPow(b, e) == IF e = 0 THEN 1 ELSE b * IntPow(b, e - 1)

\* 10**x for an integer-valued float x.
Pow10(x) ==
    IF x.k = "nan" THEN NaN
    ELSE IF x.k = "inf" THEN (IF x.n > 0 THEN PosInf ELSE Num(0))
    ELSE IF x.n >= 0 THEN Num(IntPow(10, x.n)) ELSE Rat(1, IntPow(10, -x.n))

\* The exponent e with 10^e = n/d, for a positive rational that is a power of ten.
RECURSIVE IntLog10(_)
IntLog10(n) == IF n < 10 THEN 0 ELSE 1 + IntLog10(n \div 10)

IsPow10(x) ==
    /\ x.k = "fin"
    /\ x.n > 0
    /\ \/ (x.d = 1 /\ IntPow(10, IntLog10(x.n)) = x.n)
       \/ (x.n = 1 /\ IntPow(10, IntLog10(x.d)) = x.d)

\* np.log10: -inf at 0, nan below 0, symbolic when the result is irrational.
Log10(x) ==
    IF x.k = "nan" THEN NaN
    ELSE IF x.k = "inf" THEN (IF x.n > 0 THEN PosInf ELSE NaN)
    ELSE IF x.n = 0 THEN NegInf
    ELSE IF x.n < 0 THEN NaN
    ELSE IF IsPow10(x) THEN (IF x.d = 1 THEN Num(IntLog10(x.n)) ELSE Num(-IntLog10(x.d)))
    ELSE [k |-> "log", n |-> x.n, d |-> x.d]

\* log10(a) - log10(b): the difference of two logarithms is the logarithm of the
\* quotient when both arguments are positive and finite.
LogDiff(a, b) ==
    IF a.k = "fin" /\ b.k = "fin" /\ a.n > 0 /\ b.n > 0 THEN Log10(Div(a, b))
    ELSE Sub(Log10(a), Log10(b))

----------------------------------------------------------------------------
(* Sequences of floats (numpy arrays).                                     *)

RECURSIVE SumSeq(_)
SumSeq(s) == IF s = <<>> THEN Num(0) ELSE Add(Head(s), SumSeq(Tail(s)))

Square(x) == Mul(x, x)

AllFinite(s) == \A i \in 1..Len(s) : IsFinite(s[i])

\* np.nanmax: the largest entry that is not nan (infinities take part);
\* nan when every entry is nan.
NanMax(s) ==
    LET real == {i \in 1..Len(s) : s[i].k # "nan"}
    IN  IF real = {} THEN NaN
        ELSE s[CHOOSE i \in real : \A j \in real : LessEq(s[j], s[i])]

\* numpy's elementwise a * b: arrays of equal length, or one of length 1 which is
\* broadcast; any other pair of shapes makes numpy raise ValueError.
CanBroadcast(a, b) == Len(a) = Len(b) \/ Len(a) = 1 \/ Len(b) = 1

MulSeq(a, b) ==
    LET n == IF Len(a) >= Len(b) THEN Len(a) ELSE Len(b)
    IN  [i \in 1..n |-> Mul(IF Len(a) = 1 THEN a[1] ELSE a[i],
                            IF Len(b) = 1 THEN b[1] ELSE b[i])]

----------------------------------------------------------------------------
(* The data of a model: one NDF observation table per redshift.  A row is  *)
(* (quantity, log10 density, lower uncertainty, upper uncertainty); the    *)
(* quantity of row i is i, so quantities are unique and ascending.         *)

MaxRows == 2

Redshifts == {0, 1}

PhiValues == {Num(-1), Num(1)}
LowerValues == {Num(0), Num(1), PosInf}
UpperValues == {Num(1), NaN, PosInf}

Rows == [phi : PhiValues, lo : LowerValues, hi : UpperValues]

RECURSIVE SeqsUpTo(_, _)
SeqsUpTo(S, n) ==
    IF n = 0 THEN {<<>>}
    ELSE LET shorter == SeqsUpTo(S, n - 1)
         IN  shorter \cup {Append(s, x) : s \in {t \in shorter : Len(t) = n - 1}, x \in S}

Tables == SeqsUpTo(Rows, MaxRows) \ {<<>>}

\* The columns of model.log_ndfs.at_z(z).
Column0(t) == [i \in 1..Len(t) |-> Num(i)]
Column1(t) == [i \in 1..Len(t) |-> t[i].phi]

----------------------------------------------------------------------------
(* calculate_weights of model/calibration/leastsq_fitting.py.              *)

\* A slip in line 143: the difference of the error bars is not halved.
LinearUncertainty_NotHalved(t) ==
    [i \in 1..Len(t) |->
        Sub(Pow10(Add(t[i].phi, t[i].hi)), Pow10(Sub(t[i].phi, t[i].lo)))]

\* lines 139-143: the error bars in linear space and their half difference.
LinearUncertainty(t) ==
    [i \in 1..Len(t) |->
        Div(Sub(Pow10(Add(t[i].phi, t[i].hi)), Pow10(Sub(t[i].phi, t[i].lo))), Num(2))]

\* lines 145-147: every non-finite entry is overwritten by np.nanmax(...) * 10.
SubstitutedUncertainty(t) ==
    LET u == LinearUncertainty(t)
        large == Mul(NanMax(u), Num(10))
    IN  [i \in 1..Len(t) |-> IF IsFinite(u[i]) THEN u[i] ELSE large]

\* A slip in lines 149-150: the flag relative is ignored.
calculate_weights_NeverRelative(t, relative) ==
    LET u == SubstitutedUncertainty(t)
    IN  [i \in 1..Len(t) |-> Div(Num(1), u[i])]

calculate_weights(t, relative) ==
    LET u == SubstitutedUncertainty(t)
        v == [i \in 1..Len(t) |->
                  IF relative THEN Div(u[i], Pow10(t[i].phi)) ELSE u[i]]
    IN  [i \in 1..Len(t) |-> Div(Num(1), v[i])]

----------------------------------------------------------------------------
(* Feedback variants: their parameter counts, bounds and initial guesses.  *)

Variants == {"none", "sn", "both"}

NumParams(v) == CASE v = "none" -> 1 [] v = "sn" -> 2 [] v = "both" -> 3

\* The bounds the cost function of model/calibration checks: (lower, upper) of
\* the variant, A in (0,1) and every exponent in (0, infinity).
update_bounds(v) ==
    [lower |-> [i \in 1..NumParams(v) |-> Num(0)],
     upper |-> [i \in 1..NumParams(v) |-> IF i = 1 THEN Num(1) ELSE PosInf]]

\* A slip in lines 122 and 136: the exponents start at 0, on their bound.
initial_guess_ExponentsAtZero(v) ==
    [i \in 1..NumParams(v) |-> IF i = 1 THEN Rat(1, 100) ELSE Num(0)]

initial_guess(v) == [i \in 1..NumParams(v) |-> IF i = 1 THEN Rat(1, 100) ELSE Num(1)]

\* within_bounds: every value strictly inside its pair of bounds.
within_bounds(values, lower_bounds, upper_bounds) ==
    \A i \in 1..Len(values) :
        Greater(values[i], lower_bounds[i]) /\ Less(values[i], upper_bounds[i])

\* The candidate parameter vectors an optimizer may try: below, on, inside, on
\* and above the bounds of A; below, on and inside the bounds of the exponents.
AValues == {Rat(-1, 100), Num(0), Rat(1, 100), Num(1), Rat(3, 2)}
AlphaValues == {Num(-1), Num(0), Num(1)}
BetaValues == {Num(0), Num(1)}

ParamVectors(v) ==
    CASE v = "none" -> {<<a>> : a \in AValues}
      [] v = "sn" -> {<<a, al>> : a \in AValues, al \in AlphaValues}
      [] v = "both" -> {<<a, al, be>> : a \in AValues, al \in AlphaValues, be \in BetaValues}

----------------------------------------------------------------------------
(* What a call did: how it ended and which steps it took.                  *)
(*   ret        "value" (a float), "array" (a float array) or "raise"      *)
(*   evaluated  the abundance model was evaluated                          *)
(*   inverted   the feedback function was inverted                         *)
(*   mod        the abundances the model predicted, <<>> when none         *)
(*   res        the unweighted residuals, <<>> when none were computed     *)
(*   weights    the weights, <<>> when none were computed                  *)

Steps(evaluated, inverted, mod, res, weights) ==
    [evaluated |-> evaluated, inverted |-> inverted, mod |-> mod, res |-> res,
     weights |-> weights]

NoSteps == Steps(FALSE, FALSE, <<>>, <<>>, <<>>)

Outcome(ret, val, arr, exc, steps) ==
    [ret |-> ret, val |-> val, arr |-> arr, exc |-> exc, evaluated |-> steps.evaluated,
     inverted |-> steps.inverted, mod |-> steps.mod, res |-> steps.res,
     weights |-> steps.weights]

ReturnValue(v, steps) == Outcome("value", v, <<>>, "", steps)
ReturnArray(a, steps) == Outcome("array", Num(0), a, "", steps)
Raise(exc, steps) == Outcome("raise", Num(0), <<>>, exc, steps)

----------------------------------------------------------------------------
(* cost_function of model/calibration/leastsq_fitting.py.                  *)
(*   obs      model.log_ndfs.at_z(z), the table of the redshift evaluated   *)
(*   current  model.log_ndfs.at_z(model._z), the table calculate_weights    *)
(*            reads, as it is called without z                              *)
(*   log_phi_mod  what model.calculate_log_abundance answers when asked     *)

FittingSpaces == {"log", "linear", "unknown"}
OutModes == {"cost", "res", "unknown"}

\* A slip in lines 97-103: the residuals are always those of log space.
Residuals_AlwaysLog(fitting_space, log_phi_obs, log_phi_mod) ==
    [i \in 1..Len(log_phi_obs) |-> Sub(log_phi_obs[i], log_phi_mod[i])]

\* lines 97-103
Residuals(fitting_space, log_phi_obs, log_phi_mod) ==
    [i \in 1..Len(log_phi_obs) |->
        IF fitting_space = "log" THEN Sub(log_phi_obs[i], log_phi_mod[i])
        ELSE Sub(Pow10(log_phi_obs[i]), Pow10(log_phi_mod[i]))]

\* A slip in line 116: the weighted residuals are summed without being squared.
WeightedOutput_NotSquared(out, res, weights, steps) ==
    IF ~CanBroadcast(res, weights) THEN Raise("ValueError", steps)
    ELSE LET weighted_res == MulSeq(res, weights)
         IN  IF out = "res" THEN ReturnArray(weighted_res, steps)
             ELSE IF out = "cost" THEN ReturnValue(SumSeq(weighted_res), steps)
             ELSE Raise("NameError", steps)

\* lines 111-120, once the residuals and the weights are there
WeightedOutput(out, res, weights, steps) ==
    IF ~CanBroadcast(res, weights) THEN Raise("ValueError", steps)
    ELSE LET weighted_res == MulSeq(res, weights)
         IN  IF out = "res" THEN ReturnArray(weighted_res, steps)
             ELSE IF out = "cost"
                  THEN ReturnValue(SumSeq([i \in 1..Len(weighted_res) |->
                                              Square(weighted_res[i])]), steps)
             ELSE Raise("NameError", steps)

cost_function(params, variant, obs, current, options, out, weighted, log_phi_mod) ==
    LET bounds == update_bounds(variant)
    IN  IF ~within_bounds(params, bounds.lower, bounds.upper)
        THEN ReturnValue(Big(30), NoSteps)
        ELSE IF ~AllFinite(log_phi_mod)
        THEN ReturnValue(Big(30), Steps(TRUE, TRUE, log_phi_mod, <<>>, <<>>))
        ELSE IF options.fitting_space \notin {"log", "linear"}
        THEN Raise("NameError", Steps(TRUE, TRUE, log_phi_mod, <<>>, <<>>))
        ELSE LET res == Residuals(options.fitting_space, Column1(obs), log_phi_mod)
             IN  IF weighted
                 THEN LET weights == calculate_weights(current, options.relative_weights)
                      IN  WeightedOutput(out, res, weights,
                                         Steps(TRUE, TRUE, log_phi_mod, res, weights))
                 ELSE WeightedOutput(out, res, <<Num(1)>>,
                                     Steps(TRUE, TRUE, log_phi_mod, res, <<>>))

----------------------------------------------------------------------------
(* The abundance model of SMF Analysis/smf_modelling.py.  Masses are in    *)
(* units of 1e10 solar masses, so the critical mass 1e+11 is 10.           *)

m_crit == 10

\* x**e for an integer exponent e (np.power: x**0 is 1 for every x).
RECURSIVE PowInt(_, _)
PowInt(x, e) ==
    IF e = 0 THEN Num(1)
    ELSE IF e < 0 THEN Div(Num(1), PowInt(x, -e))
    ELSE Mul(x, PowInt(x, e - 1))

\* The exponents of the candidate vectors are whole numbers.
Exponent(x) == x.n

\* A slip in line 126: the mass is not scaled by the critical mass.
feedback_derivative_UnscaledMass(variant, m_c, m_h, params) ==
    CASE variant = "none" -> params[1]
      [] variant = "sn" -> Mul(params[1], PowInt(m_h, Exponent(params[2])))
      [] variant = "both" ->
            Mul(params[1],
                Div(Num(1), Add(PowInt(Div(m_h, m_c), -Exponent(params[2])),
                                PowInt(Div(m_h, m_c), Exponent(params[3])))))

\* no_feedback.derivative, supernova_feedback.derivative,
\* supernova_blackhole_feedvack.derivative of a feedback model whose m_c is m_c.
feedback_derivative(variant, m_c, m_h, params) ==
    LET x == Div(m_h, m_c)
    IN  CASE variant = "none" -> params[1]
          [] variant = "sn" -> Mul(params[1], PowInt(x, Exponent(params[2])))
          [] variant = "both" ->
                Mul(params[1],
                    Div(Num(1), Add(PowInt(x, -Exponent(params[2])),
                                    PowInt(x, Exponent(params[3])))))

\* no_feedback.function and supernova_feedback.function.  The function of the
\* "both" variant is a hypergeometric function, whose values are not rational.
Representable(variant) == variant \in {"none", "sn"}

\* A slip in line 116: the mass is scaled by the critical mass, as it is in
\* the other variants.
feedback_function_ScaledMass(variant, m_c, m_h, params) ==
    LET x == Div(m_h, m_c)
    IN  CASE variant = "none" -> Mul(params[1], x)
          [] variant = "sn" ->
                Mul(Mul(Div(params[1], Add(params[2], Num(1))),
                        PowInt(x, Exponent(params[2]))), m_h)

feedback_function(variant, m_c, m_h, params) ==
    LET x == Div(m_h, m_c)
    IN  CASE variant = "none" -> Mul(params[1], m_h)
          [] variant = "sn" ->
                Mul(Mul(Div(params[1], Add(params[2], Num(1))),
                        PowInt(x, Exponent(params[2]))), m_h)

\* The methods of the feedback model fit_SMF_model builds by default, with the
\* critical mass m_crit.
derivative(variant, m_h, params) == feedback_derivative(variant, Num(m_crit), m_h, params)

function(variant, m_h, params) == feedback_function(variant, Num(m_crit), m_h, params)

\* The halo masses the numerical inversion may answer.
HaloMasses == {Num(1000), Num(10000)}

\* stellar_to_halo_mass: pynverse's inversefunc, a numerical search.  Where a
\* halo mass with func(m_h) = m_star is at hand it is the answer; elsewhere the
\* search answers some halo mass or nan, or raises.
InverseOf(variant, params, m) ==
    LET exact == IF Representable(variant)
                 THEN {h \in HaloMasses : function(variant, h, params) = m}
                 ELSE {}
    IN  IF exact # {} THEN exact ELSE HaloMasses \cup {NaN}

Inexact(variant, params, m_star) ==
    \E i \in 1..Len(m_star) :
        ~Representable(variant)
        \/ \A h \in HaloMasses : function(variant, h, params) # m_star[i]

stellar_to_halo_mass(variant, params, m_star) ==
    LET answers == [i \in 1..Len(m_star) |-> InverseOf(variant, params, m_star[i])]
    IN  {[ok |-> TRUE, m_h |-> h] :
            h \in {g \in [1..Len(m_star) -> HaloMasses \cup {NaN}] :
                      \A i \in 1..Len(m_star) : g[i] \in answers[i]}}
        \cup (IF Inexact(variant, params, m_star) THEN {[ok |-> FALSE, m_h |-> <<>>]} ELSE {})

\* interp1d(*hmf.T): linear interpolation inside the table, ValueError outside.
HMFTable == << <<Num(1), Num(10)>>, <<Num(100), Num(1)>>, <<Num(10000), Rat(1, 10)>> >>

InDomain(hmf, x) == LessEq(hmf[1][1], x) /\ LessEq(x, hmf[Len(hmf)][1])

hmf_function(hmf, x) ==
    LET i == CHOOSE j \in 1..(Len(hmf) - 1) : LessEq(hmf[j][1], x) /\ LessEq(x, hmf[j + 1][1])
        slope == Div(Sub(hmf[i + 1][2], hmf[i][2]), Sub(hmf[i + 1][1], hmf[i][1]))
    IN  Add(hmf[i][2], Mul(slope, Sub(x, hmf[i][1])))

\* smf_model_class.function; inv is what stellar_to_halo_mass answered.
\* lines 78-79: np.any(params < 0) or (params[0] == 0), asked before the inversion.
ParamsRejected(params) ==
    (\E i \in 1..Len(params) : Less(params[i], Num(0))) \/ params[1] = Num(0)

\* The inversion that was never asked for.
NoInversion == [ok |-> TRUE, m_h |-> <<>>]

smf_function(variant, hmf, m_star, params, inv) ==
    IF ParamsRejected(params)
    THEN ReturnValue(Big(10), Steps(TRUE, FALSE, <<>>, <<>>, <<>>))
    ELSE IF ~inv.ok THEN Raise("ValueError", Steps(TRUE, TRUE, <<>>, <<>>, <<>>))
    ELSE IF \E i \in 1..Len(m_star) : ~InDomain(hmf, m_star[i])
    THEN Raise("ValueError", Steps(TRUE, TRUE, <<>>, <<>>, <<>>))
    ELSE LET phi == [i \in 1..Len(m_star) |->
                        Mul(Mul(hmf_function(hmf, m_star[i]), Div(m_star[i], inv.m_h[i])),
                            Div(Num(1), derivative(variant, inv.m_h[i], params)))]
         IN  ReturnArray(phi, Steps(TRUE, TRUE, phi, <<>>, <<>>))

----------------------------------------------------------------------------
(* cost_function of SMF Analysis/leastsq_fitting.py.  Its table smf holds  *)
(* linear masses and densities: the linear form of the rows of a table.    *)

smf_m_obs(t) == [i \in 1..Len(t) |-> Pow10(Num(i))]
smf_phi_obs(t) == [i \in 1..Len(t) |-> Pow10(t[i].phi)]

smf_cost_function(params, variant, hmf, t, inv) ==
    LET phi_mod == smf_function(variant, hmf, smf_m_obs(t), params, inv)
    IN  IF phi_mod.ret = "raise" THEN phi_mod
        ELSE IF ~within_bounds(params, <<Num(0), Num(0), Num(0), Num(0)>>,
                               <<Num(1), PosInf, PosInf, Num(1)>>)
        THEN ReturnValue(Big(10), Steps(TRUE, phi_mod.inverted, phi_mod.mod, <<>>, <<>>))
        ELSE LET res == [i \in 1..Len(t) |-> LogDiff(smf_phi_obs(t)[i], phi_mod.arr[i])]
             IN  ReturnArray(res, Steps(TRUE, TRUE, phi_mod.mod, res, <<>>))

----------------------------------------------------------------------------
(* The state: a model (its tables, current redshift, options and feedback  *)
(* variant), the call last made on it and the fit in progress.             *)

VARIABLES
    log_ndfs,           \* model.log_ndfs: redshift -> table
    z_model,            \* model._z
    quantity_options,   \* model.quantity_options
    feedback_name,      \* the feedback variant of the model
    call,               \* the call last made and what it did
    fit,                \* lsq_fit in progress: the optimizer's evaluations
    smf,                \* fit_SMF_model of SMF Analysis in progress
    slices,             \* the calibrations of the redshift slices in progress
    evaluation,         \* the feedback function evaluated last
    run                 \* the call of run_model last made

vars == <<log_ndfs, z_model, quantity_options, feedback_name, call, fit, smf, slices,
         evaluation, run>>

\* Python's None as the z argument: no redshift is one.
None == -1

NoOutcome == Outcome("none", Num(0), <<>>, "", NoSteps)

\* A call record: the function, its arguments and its outcome.
CallRecord(op, params, out, weighted, z, relative, outcome) ==
    [op |-> op, params |-> params, out |-> out, weighted |-> weighted, z |-> z,
     relative |-> relative, outcome |-> outcome]

NoCall == CallRecord("none", <<>>, "cost", TRUE, None, TRUE, NoOutcome)

\* The arguments lsq_fit hands to a backend; None and <<>> where it hands none.
NoArguments == [out |-> "", x0 |-> <<>>, bounds |-> <<>>, maxiter |-> None, Ns |-> None]

NoFit == [pc |-> "idle", method |-> "", arguments |-> NoArguments, x |-> <<>>, evals |-> 0,
          success |-> TRUE, warned |-> FALSE, exc |-> ""]

\* fit_SMF_model at rest, no slice under calibration, nothing evaluated, no
\* call of run_model.
NoSMF == [pc |-> "idle"]
NoSlices == [z \in Redshifts |-> [pc |-> "idle"]]
NoEvaluation == [op |-> "none"]
NoRun == [pc |-> "idle"]

\* The program is single-threaded: an operation starts when no other is under way.
Idle ==
    /\ call.op = "none" /\ fit.pc = "idle" /\ smf.pc = "idle"
    /\ \A z \in Redshifts : slices[z].pc = "idle"

\* The tables a calibration model holds: any table of these rows at redshift 0,
\* a one-row table at redshift 1.
ModelRows == {[phi |-> Num(-1), lo |-> Num(1), hi |-> Num(1)],
              [phi |-> Num(1), lo |-> Num(1), hi |-> NaN]}
ModelTables == {t \in Tables : \A i \in 1..Len(t) : t[i] \in ModelRows}
OneRowTable == <<[phi |-> Num(-1), lo |-> Num(1), hi |-> Num(1)]>>

Init ==
    /\ log_ndfs \in {f \in [Redshifts -> ModelTables] : f[1] = OneRowTable}
    /\ z_model \in Redshifts
    /\ quantity_options = [fitting_space |-> "log", relative_weights |-> TRUE]
    /\ feedback_name \in Variants
    /\ call = NoCall
    /\ fit = NoFit
    /\ smf = NoSMF
    /\ slices = NoSlices
    /\ evaluation = NoEvaluation
    /\ run = NoRun

\* The configuration collaborator sets the per-quantity options.
SetQuantityOptions ==
    /\ Idle
    /\ \E fs \in FittingSpaces, rel \in BOOLEAN :
          quantity_options' = [fitting_space |-> fs, relative_weights |-> rel]
    /\ UNCHANGED <<log_ndfs, z_model, feedback_name, call, fit, smf, slices, evaluation, run>>

\* What model.calculate_log_abundance may answer for a table: one float per row.
PredictionValues == {Num(-1), Num(0), NaN}
Predictions(t) == [1..Len(t) -> PredictionValues]

\* lines 83-88: calculate_log_abundance is asked only once the bounds check has
\* passed; before that there is no prediction.
Asked(params, variant, t) ==
    IF within_bounds(params, update_bounds(variant).lower, update_bounds(variant).upper)
    THEN Predictions(t)
    ELSE {<<>>}

ZArguments == Redshifts \cup {None}
AtZ(z) == log_ndfs[IF z = None THEN z_model ELSE z]

\* cost_function(params, model, out, weighted, z) of model/calibration.
CostFunction ==
    /\ Idle
    /\ \E params \in ParamVectors(feedback_name), out \in OutModes,
          weighted \in BOOLEAN, z \in ZArguments :
          \E log_phi_mod \in Asked(params, feedback_name, AtZ(z)) :
              LET outcome == cost_function(params, feedback_name, AtZ(z), AtZ(None),
                                           quantity_options, out, weighted, log_phi_mod)
              IN  call' = CallRecord("cost_function", params, out, weighted, z,
                                     quantity_options.relative_weights, outcome)
    /\ UNCHANGED <<log_ndfs, z_model, quantity_options, feedback_name, fit, smf, slices, evaluation, run>>

\* calculate_weights(model, z, relative)
CalculateWeights ==
    /\ Idle
    /\ \E z \in ZArguments, relative \in BOOLEAN :
          call' = CallRecord("calculate_weights", <<>>, "cost", TRUE, z, relative,
                             ReturnArray(calculate_weights(AtZ(z), relative),
                                         Steps(FALSE, FALSE, <<>>, <<>>,
                                               calculate_weights(AtZ(z), relative))))
    /\ UNCHANGED <<log_ndfs, z_model, quantity_options, feedback_name, fit, smf, slices, evaluation, run>>

\* cost_function(params, smf, smf_model) of SMF Analysis, on the table of z.
SMFCostFunction ==
    /\ Idle
    /\ \E params \in ParamVectors(feedback_name), z \in Redshifts :
          \E inv \in stellar_to_halo_mass(feedback_name, params, smf_m_obs(log_ndfs[z])) :
              call' = CallRecord("smf_cost_function", params, "res", FALSE, z, FALSE,
                                 smf_cost_function(params, feedback_name, HMFTable,
                                                   log_ndfs[z], inv))
    /\ UNCHANGED <<log_ndfs, z_model, quantity_options, feedback_name, fit, smf, slices, evaluation, run>>

\* The caller takes the result; the model is ready for the next call.
Return ==
    /\ call.op # "none"
    /\ call' = NoCall
    /\ UNCHANGED <<log_ndfs, z_model, quantity_options, feedback_name, fit, smf, slices, evaluation, run>>

----------------------------------------------------------------------------
(* lsq_fit of model/calibration/leastsq_fitting.py.  The optimizers are    *)
(* scipy's: each evaluates the cost function at candidate vectors inside   *)
(* the closed bounds and then hands back its result.  least_squares,       *)
(* minimize and dual_annealing hand back an OptimizeResult (fields x and   *)
(* success); brute, called without full_output, hands back the bare array  *)
(* of the best grid point.                                                 *)

MaxEvals == 2

Methods == {"least_squares", "minimize", "annealing", "brute"}
MethodArguments == Methods \cup {"unknown"}

\* The candidates of a bounded optimizer: inside or on the bounds.
Candidates(v) ==
    {p \in ParamVectors(v) :
        \A i \in 1..Len(p) : LessEq(update_bounds(v).lower[i], p[i])
                             /\ LessEq(p[i], update_bounds(v).upper[i])}

\* A slip in lines 31-33: least_squares is not told to ask for residuals.
OutOf_AlwaysCost(method) == "cost"

\* lines 26-33: least_squares is given args=(model, 'res'); the other
\* backends args=(model,), so out keeps its default 'cost'.
OutOf(method) == IF method = "least_squares" THEN "res" ELSE "cost"

\* least_squares and minimize start at the initial guess.
StartsAtGuess(method) == method \in {"least_squares", "minimize"}

\* model.physics_model.at_z(model._z).bounds: the pair (lower bounds, upper
\* bounds) of the variant, the bounds the cost function checks.
physics_model_bounds(v) == <<update_bounds(v).lower, update_bounds(v).upper>>

\* line 24: list(zip(*bounds)), one (lower, upper) pair per parameter.
Zipped(bounds) == [i \in 1..Len(bounds[1]) |-> <<bounds[1][i], bounds[2][i]>>]

\* lines 26-53: what each backend is called with.
BackendArguments(method, v) ==
    [out |-> OutOf(method),
     x0 |-> IF StartsAtGuess(method) THEN initial_guess(v) ELSE <<>>,
     bounds |-> IF method = "least_squares" THEN physics_model_bounds(v)
                ELSE Zipped(physics_model_bounds(v)),
     maxiter |-> IF method = "annealing" THEN 1000 ELSE None,
     Ns |-> IF method = "brute" THEN 100 ELSE None]

\* The points a backend may evaluate: least_squares reads its bounds as the
\* pair (lower, upper), minimize, dual_annealing and brute as one pair per
\* parameter; each stays inside or on them.
BackendCandidates(method, bounds, v) ==
    {p \in ParamVectors(v) :
        \A i \in 1..Len(p) :
            LET lower == IF method = "least_squares" THEN bounds[1][i] ELSE bounds[i][1]
                upper == IF method = "least_squares" THEN bounds[2][i] ELSE bounds[i][2]
            IN  LessEq(lower, p[i]) /\ LessEq(p[i], upper)}

\* lines 24-55: the dispatch on method; an unknown name raises NameError.
FitStart ==
    /\ Idle
    /\ \E method \in MethodArguments :
          fit' = IF method \in Methods
                 THEN [NoFit EXCEPT !.pc = "optimizing", !.method = method,
                                    !.arguments = BackendArguments(method, feedback_name)]
                 ELSE [NoFit EXCEPT !.pc = "raised", !.method = method, !.exc = "NameError"]
    /\ UNCHANGED <<log_ndfs, z_model, quantity_options, feedback_name, call, smf, slices, evaluation, run>>

\* One evaluation of cost_function by the optimizer; an exception of the cost
\* function leaves the optimizer and lsq_fit.
FitEvaluate ==
    /\ fit.pc = "optimizing"
    /\ fit.evals < MaxEvals
    /\ \E params \in BackendCandidates(fit.method, fit.arguments.bounds, feedback_name),
          accept \in BOOLEAN :
        \E log_phi_mod \in Asked(params, feedback_name, AtZ(None)) :
          LET outcome == cost_function(params, feedback_name, AtZ(None), AtZ(None),
                                       quantity_options, fit.arguments.out, TRUE,
                                       log_phi_mod)
          IN  /\ fit.evals = 0 /\ fit.arguments.x0 # <<>>
                    => params = fit.arguments.x0
              /\ fit' = IF outcome.ret = "raise"
                        THEN [fit EXCEPT !.pc = "raised", !.exc = outcome.exc]
                        ELSE [fit EXCEPT !.evals = @ + 1,
                                         !.x = IF accept \/ fit.evals = 0 THEN params ELSE @]
    /\ UNCHANGED <<log_ndfs, z_model, quantity_options, feedback_name, call, smf, slices, evaluation, run>>

\* lines 57-62: the optimizer hands back its result; par = optimization_res.x,
\* the warning when success is false, and the pair (par, None).
OptimizerResult(method, x, success) ==
    IF method = "brute" THEN [type |-> "ndarray", x |-> x, success |-> success]
    ELSE [type |-> "OptimizeResult", x |-> x, success |-> success]

\* A slip in lines 58-59: non-convergence is raised instead of warned about.
FitFinish_RaisesOnFailure ==
    /\ fit.pc = "optimizing"
    /\ fit.evals >= 1
    /\ \E success \in BOOLEAN :
          LET optimization_res == OptimizerResult(fit.method, fit.x, success)
          IN  fit' = IF optimization_res.type # "OptimizeResult"
                     THEN [fit EXCEPT !.pc = "raised", !.exc = "AttributeError"]
                     ELSE IF ~optimization_res.success
                     THEN [fit EXCEPT !.pc = "raised", !.exc = "RuntimeError"]
                     ELSE [fit EXCEPT !.pc = "returned", !.x = optimization_res.x,
                                      !.success = TRUE, !.warned = FALSE]
    /\ UNCHANGED <<log_ndfs, z_model, quantity_options, feedback_name, call, smf, slices, evaluation, run>>

FitFinish ==
    /\ fit.pc = "optimizing"
    /\ fit.evals >= 1
    /\ \E success \in BOOLEAN :
          LET optimization_res == OptimizerResult(fit.method, fit.x, success)
          IN  fit' = IF optimization_res.type # "OptimizeResult"
                     THEN [fit EXCEPT !.pc = "raised", !.exc = "AttributeError"]
                     ELSE [fit EXCEPT !.pc = "returned", !.x = optimization_res.x,
                                      !.success = optimization_res.success,
                                      !.warned = ~optimization_res.success]
    /\ UNCHANGED <<log_ndfs, z_model, quantity_options, feedback_name, call, smf, slices, evaluation, run>>

\* The caller takes the pair (or the exception).
FitReturn ==
    /\ fit.pc \in {"returned", "raised"}
    /\ fit' = NoFit
    /\ UNCHANGED <<log_ndfs, z_model, quantity_options, feedback_name, call, smf, slices, evaluation, run>>

Next ==
    \/ SetQuantityOptions
    \/ CostFunction
    \/ CalculateWeights
    \/ SMFCostFunction
    \/ Return

Spec == Init /\ [][Next]_vars

----------------------------------------------------------------------------
(* The weights on their own: calculate_weights over every table of error   *)
(* bars, finite, nan and infinite, at either redshift.                     *)

InitWeights ==
    /\ log_ndfs \in {f \in [Redshifts -> Tables] : f[1] = OneRowTable}
    /\ z_model \in Redshifts
    /\ quantity_options = [fitting_space |-> "log", relative_weights |-> TRUE]
    /\ feedback_name = "none"
    /\ call = NoCall
    /\ fit = NoFit
    /\ smf = NoSMF
    /\ slices = NoSlices
    /\ evaluation = NoEvaluation
    /\ run = NoRun

NextWeights ==
    \/ CalculateWeights
    \/ Return

SpecWeights == InitWeights /\ [][NextWeights]_vars

----------------------------------------------------------------------------
(* The feedback models on their own: function and derivative of a feedback *)
(* model of any variant and critical mass, at any halo mass and parameters.*)

MCritValues == {Num(1), Num(m_crit), Num(1000)}
FeedbackMasses == {Rat(1, 2), Num(10), Num(1000)}

\* The parameters the feedback models are evaluated at: the candidate vectors
\* and vectors with an amplitude of 1/2 or an exponent of 2.
FeedbackParams(v) ==
    ParamVectors(v)
    \cup (CASE v = "none" -> {<<Rat(1, 2)>>}
           [] v = "sn" -> {<<Rat(1, 2), al>> : al \in {Num(1), Num(2)}}
           [] v = "both" -> {})

\* feedback_model(feedback_name, m_crit).function(m_h, *params)
EvaluateFunction ==
    /\ Idle
    /\ evaluation.op = "none"
    /\ \E variant \in {v \in Variants : Representable(v)}, m_c \in MCritValues,
          m_h \in FeedbackMasses :
          \E params \in FeedbackParams(variant) :
              evaluation' = [op |-> "function", variant |-> variant, m_c |-> m_c,
                             m_h |-> m_h, params |-> params,
                             value |-> feedback_function(variant, m_c, m_h, params)]
    /\ UNCHANGED <<log_ndfs, z_model, quantity_options, feedback_name, call, fit, smf, slices, run>>

\* feedback_model(feedback_name, m_crit).derivative(m_h, *params)
EvaluateDerivative ==
    /\ Idle
    /\ evaluation.op = "none"
    /\ \E variant \in Variants, m_c \in MCritValues, m_h \in FeedbackMasses :
          \E params \in FeedbackParams(variant) :
              evaluation' = [op |-> "derivative", variant |-> variant, m_c |-> m_c,
                             m_h |-> m_h, params |-> params,
                             value |-> feedback_derivative(variant, m_c, m_h, params)]
    /\ UNCHANGED <<log_ndfs, z_model, quantity_options, feedback_name, call, fit, smf, slices, run>>

\* The caller takes the value.
TakeValue ==
    /\ evaluation.op # "none"
    /\ evaluation' = NoEvaluation
    /\ UNCHANGED <<log_ndfs, z_model, quantity_options, feedback_name, call, fit, smf, slices, run>>

InitFeedback ==
    /\ log_ndfs = [z \in Redshifts |-> OneRowTable]
    /\ z_model = 0
    /\ quantity_options = [fitting_space |-> "log", relative_weights |-> TRUE]
    /\ feedback_name = "none"
    /\ call = NoCall
    /\ fit = NoFit
    /\ smf = NoSMF
    /\ slices = NoSlices
    /\ evaluation = NoEvaluation
    /\ run = NoRun

NextFeedback ==
    \/ EvaluateFunction
    \/ EvaluateDerivative
    \/ TakeValue

SpecFeedback == InitFeedback /\ [][NextFeedback]_vars

----------------------------------------------------------------------------
(* lsq_fit on its own: the fits of a model under any options.              *)

NextFit ==
    \/ SetQuantityOptions
    \/ FitStart
    \/ FitEvaluate
    \/ FitFinish
    \/ FitReturn

SpecFit == Init /\ [][NextFit]_vars

----------------------------------------------------------------------------
(* fit_SMF_model of SMF Analysis/smf_modelling.py, with lsq_fit of         *)
(* SMF Analysis/leastsq_fitting.py.  The list smfs holds the tables of the *)
(* first n redshifts; smf (the variable) is the run:                       *)
(*   fitting_method  the argument                                          *)
(*   bound      what the local name fit is bound to after lines 37-41      *)
(*   n, i       len(smfs) and the loop index                               *)
(*   cut        the rows of smfs[i] that are kept (lines 45-51)            *)
(*   hmf        the index in hmfs of the HMF of the slice (line 46)        *)
(*   model      the smf_model of the slice: its feedback model             *)
(*   x, evals   the optimizer's point and its evaluations so far           *)
(*   parameter  the list of fitted parameters                              *)
(*   modelled_smf, cost  the lists of modelled SMFs and costs: for each    *)
(*              entry, the slice whose fit it comes from                   *)

FittingMethods == {"least_squares", "mcmc", "unknown"}

SliceCounts == 0..Cardinality(Redshifts)

\* lines 37-41: no branch for any other name, the local name stays unbound.
BoundFit(fitting_method) ==
    CASE fitting_method = "least_squares" -> "lsq_fit"
      [] fitting_method = "mcmc" -> "mcmc_fit"
      [] OTHER -> "unbound"

\* feedback_model(feedback_name, m_crit): lines 104-136
FeedbackModel(name, m_c) ==
    [name |-> name, m_c |-> m_c, initial_guess |-> initial_guess(name)]

NoModel == [name |-> "", m_c |-> Num(0), initial_guess |-> <<>>]

\* Abundances are cut at 1e-6 (line 45).
AbundanceCut == Rat(1, 1000000)

\* A slip in line 45: the rows on the cut are kept.
AboveCut_OrOnCut(row) == LessEq(AbundanceCut, row.phi)

\* line 45: smfs[i][:,1] > 1e-6
AboveCut(row) == Greater(row.phi, AbundanceCut)

\* lines 45-51: the indices of the rows (m, phi) of an SMF that are kept; for
\* 'sn' only the rows whose mass is below m_crit.
KeptRows(rows, name, m_c) ==
    SelectSeq([i \in 1..Len(rows) |-> i],
              LAMBDA i : AboveCut(rows[i]) /\ (name = "sn" => Less(rows[i].m, m_c)))

cut_smf(rows, name, m_c) ==
    LET kept == KeptRows(rows, name, m_c)
    IN  [j \in 1..Len(kept) |-> rows[kept[j]]]

\* The rows (m, phi) of a table of the model.
LinearRows(t) == [i \in 1..Len(t) |-> [m |-> smf_m_obs(t)[i], phi |-> smf_phi_obs(t)[i]]]

\* lines 45-51 on a table of the model.  Every density of a table is above the
\* cut and the masses ascend, so the rows kept are the first ones.
CutSlice(t, name, m_c) ==
    LET kept == KeptRows(LinearRows(t), name, m_c)
    IN  [j \in 1..Len(kept) |-> t[kept[j]]]

\* lines 16-43
FitSMFModel ==
    /\ Idle
    /\ \E fitting_method \in FittingMethods, n \in SliceCounts :
          smf' = [pc |-> "loop", fitting_method |-> fitting_method,
                  bound |-> BoundFit(fitting_method), n |-> n, i |-> 0,
                  cut |-> <<>>, hmf |-> None, model |-> NoModel, x |-> <<>>,
                  evals |-> 0, parameter |-> <<>>, modelled_smf |-> <<>>,
                  cost |-> <<>>, exc |-> ""]
    /\ UNCHANGED <<log_ndfs, z_model, quantity_options, feedback_name, call, fit, slices, evaluation, run>>

\* A slip in line 46: every slice is given the first HMF of the list.
SMFNextSlice_FirstHMF ==
    /\ smf.pc = "loop"
    /\ smf.i < smf.n
    /\ smf' = [smf EXCEPT
                  !.cut = CutSlice(log_ndfs[smf.i], feedback_name, Num(m_crit)),
                  !.hmf = 1,
                  !.model = FeedbackModel(feedback_name, Num(m_crit)),
                  !.x = <<>>,
                  !.evals = 0,
                  !.pc = IF smf.bound = "unbound" THEN "raised" ELSE "fitting",
                  !.exc = IF smf.bound = "unbound" THEN "UnboundLocalError" ELSE ""]
    /\ UNCHANGED <<log_ndfs, z_model, quantity_options, feedback_name, call, fit, slices, evaluation, run>>

\* lines 44-56: one pass of the loop up to the call of fit; the unbound name
\* raises UnboundLocalError there.
SMFNextSlice ==
    /\ smf.pc = "loop"
    /\ smf.i < smf.n
    /\ smf' = [smf EXCEPT
                  !.cut = CutSlice(log_ndfs[smf.i], feedback_name, Num(m_crit)),
                  !.hmf = smf.i + 1,
                  !.model = FeedbackModel(feedback_name, Num(m_crit)),
                  !.x = <<>>,
                  !.evals = 0,
                  !.pc = IF smf.bound = "unbound" THEN "raised" ELSE "fitting",
                  !.exc = IF smf.bound = "unbound" THEN "UnboundLocalError" ELSE ""]
    /\ UNCHANGED <<log_ndfs, z_model, quantity_options, feedback_name, call, fit, slices, evaluation, run>>

\* How an evaluation of cost_function(params, smf, smf_model) on the rows t may
\* end for least_squares: "" when it returns, else the exception it raises,
\* over everything the inversion may answer.
SMFExceptions(params, name, t) ==
    {smf_cost_function(params, name, HMFTable, t, inv).exc :
        inv \in IF ParamsRejected(params) THEN {NoInversion}
                ELSE stellar_to_halo_mass(name, params, smf_m_obs(t))}

\* A slip in least_squares' use of x0: the candidate is written into the list
\* initial_guess of the feedback model.
SMFEvaluate_OverwritesGuess ==
    /\ smf.pc = "fitting"
    /\ smf.bound = "lsq_fit"
    /\ smf.cut # <<>>
    /\ smf.evals < MaxEvals
    /\ \E params \in ParamVectors(smf.model.name) :
          /\ smf.evals = 0 => params = smf.model.initial_guess
          /\ \E exc \in SMFExceptions(params, smf.model.name, smf.cut), accept \in BOOLEAN :
                smf' = IF exc # ""
                       THEN [smf EXCEPT !.pc = "raised", !.exc = exc]
                       ELSE [smf EXCEPT !.evals = @ + 1,
                                        !.model.initial_guess = params,
                                        !.x = IF accept \/ smf.evals = 0 THEN params ELSE @]
    /\ UNCHANGED <<log_ndfs, z_model, quantity_options, feedback_name, call, fit, slices, evaluation, run>>

\* lsq_fit lines 19-20: least_squares, without bounds, evaluates cost_function
\* at the initial guess and then at candidates of its choice; an exception of
\* the cost function leaves least_squares, lsq_fit and fit_SMF_model.
SMFEvaluate ==
    /\ smf.pc = "fitting"
    /\ smf.bound = "lsq_fit"
    /\ smf.cut # <<>>
    /\ smf.evals < MaxEvals
    /\ \E params \in ParamVectors(smf.model.name) :
          /\ smf.evals = 0 => params = smf.model.initial_guess
          /\ \E exc \in SMFExceptions(params, smf.model.name, smf.cut), accept \in BOOLEAN :
                smf' = IF exc # ""
                       THEN [smf EXCEPT !.pc = "raised", !.exc = exc]
                       ELSE [smf EXCEPT !.evals = @ + 1,
                                        !.x = IF accept \/ smf.evals = 0 THEN params ELSE @]
    /\ UNCHANGED <<log_ndfs, z_model, quantity_options, feedback_name, call, fit, slices, evaluation, run>>

\* lsq_fit lines 19-22 on a slice the cut left empty: what least_squares does
\* with an empty residual vector and what fitting.cost/len(smf) gives at
\* len(smf) = 0 is scipy's and numpy's affair; it raises or hands back the
\* initial guess.
SMFEmptySlice ==
    /\ smf.pc = "fitting"
    /\ smf.bound = "lsq_fit"
    /\ smf.cut = <<>>
    /\ smf.evals = 0
    /\ \E raises \in BOOLEAN :
          smf' = IF raises
                 THEN [smf EXCEPT !.pc = "raised", !.exc = "ValueError"]
                 ELSE [smf EXCEPT !.evals = 1, !.x = smf.model.initial_guess]
    /\ UNCHANGED <<log_ndfs, z_model, quantity_options, feedback_name, call, fit, slices, evaluation, run>>

\* mcmc_fitting.mcmc_fit: the sampler hands back a parameter vector.
SMFSample ==
    /\ smf.pc = "fitting"
    /\ smf.bound = "mcmc_fit"
    /\ smf.evals = 0
    /\ \E params \in ParamVectors(smf.model.name) :
          smf' = [smf EXCEPT !.evals = 1, !.x = params]
    /\ UNCHANGED <<log_ndfs, z_model, quantity_options, feedback_name, call, fit, slices, evaluation, run>>

\* The masses of m_star_range the model is drawn at (lsq_fit line 25).
RangeMasses == <<Num(1), Num(100)>>

\* lsq_fit lines 21-29 and fit_SMF_model lines 56-59: the fitted parameters, the
\* modelled SMF drawn with them, and the results appended to the lists.
SMFFitReturn ==
    /\ smf.pc = "fitting"
    /\ smf.evals >= 1
    /\ \E inv \in stellar_to_halo_mass(smf.model.name, smf.x, RangeMasses) :
          LET modelled_phi == smf_function(smf.model.name, HMFTable, RangeMasses, smf.x, inv)
          IN  smf' = IF modelled_phi.ret = "raise"
                     THEN [smf EXCEPT !.pc = "raised", !.exc = modelled_phi.exc]
                     ELSE [smf EXCEPT !.pc = "loop", !.i = @ + 1,
                                      !.parameter = Append(@, smf.x),
                                      !.modelled_smf = Append(@, smf.i),
                                      !.cost = Append(@, smf.i)]
    /\ UNCHANGED <<log_ndfs, z_model, quantity_options, feedback_name, call, fit, slices, evaluation, run>>

\* line 60, after the last pass of the loop
SMFReturn ==
    /\ smf.pc = "loop"
    /\ smf.i = smf.n
    /\ smf' = [smf EXCEPT !.pc = "returned"]
    /\ UNCHANGED <<log_ndfs, z_model, quantity_options, feedback_name, call, fit, slices, evaluation, run>>

\* The caller takes the lists (or the exception).
SMFTake ==
    /\ smf.pc \in {"returned", "raised"}
    /\ smf' = NoSMF
    /\ UNCHANGED <<log_ndfs, z_model, quantity_options, feedback_name, call, fit, slices, evaluation, run>>

\* The tables whose rows all carry both uncertainties.
MeasuredTables == {t \in ModelTables : \A i \in 1..Len(t) : t[i] = OneRowTable[1]}

\* The calibration runs of both packages, for a model at redshift 0 with the
\* options it was built with and fully measured observations.
InitRuns == Init /\ z_model = 0 /\ log_ndfs[0] \in MeasuredTables

NextRuns ==
    \/ FitStart
    \/ FitEvaluate
    \/ FitFinish
    \/ FitReturn
    \/ FitSMFModel
    \/ SMFNextSlice
    \/ SMFEvaluate
    \/ SMFEmptySlice
    \/ SMFSample
    \/ SMFFitReturn
    \/ SMFReturn
    \/ SMFTake

SpecRuns == InitRuns /\ [][NextRuns]_vars

----------------------------------------------------------------------------
(* The cuts of fit_SMF_model on their own: lines 45-51 on any SMF, with    *)
(* densities below, on and above the cut and masses below, on and above    *)
(* the critical mass.                                                      *)

SMFRows == [m : {Num(1), Num(m_crit), Num(100)},
            phi : {Rat(1, 10000000), AbundanceCut, Rat(1, 10)}]

SMFs == SeqsUpTo(SMFRows, MaxRows)

CutSMF ==
    /\ Idle
    /\ evaluation.op = "none"
    /\ \E name \in Variants, m_c \in {Num(m_crit), Num(100)}, rows \in SMFs :
          evaluation' = [op |-> "cut", variant |-> name, m_c |-> m_c, rows |-> rows,
                         kept |-> cut_smf(rows, name, m_c)]
    /\ UNCHANGED <<log_ndfs, z_model, quantity_options, feedback_name, call, fit, smf, slices, run>>

NextCut ==
    \/ CutSMF
    \/ TakeValue

SpecCut == InitFeedback /\ [][NextCut]_vars

----------------------------------------------------------------------------
(* Least-squares fits from an injected initial guess: the caller has       *)
(* replaced the initial guess of the model (model/calibration) or of the   *)
(* feedback model it hands to lsq_fit (SMF Analysis) by a vector of its    *)
(* choice.                                                                 *)

\* scipy's in_bounds: least_squares raises ValueError("`x0` is infeasible.")
\* for an x0 that is not inside or on the bounds (lower, upper) it is given.
in_bounds(x0, bounds) ==
    \A i \in 1..Len(x0) : LessEq(bounds[1][i], x0[i]) /\ LessEq(x0[i], bounds[2][i])

\* lsq_fit(model, 'least_squares') of model/calibration, lines 24-33: the guess
\* and the bounds go to least_squares as they are.
FitStartInjected ==
    /\ Idle
    /\ \E guess \in ParamVectors(feedback_name) :
          LET arguments == [BackendArguments("least_squares", feedback_name)
                               EXCEPT !.x0 = guess]
          IN  fit' = IF in_bounds(arguments.x0, arguments.bounds)
                     THEN [NoFit EXCEPT !.pc = "optimizing", !.method = "least_squares",
                                        !.arguments = arguments]
                     ELSE [NoFit EXCEPT !.pc = "raised", !.method = "least_squares",
                                        !.arguments = arguments, !.exc = "ValueError"]
    /\ UNCHANGED <<log_ndfs, z_model, quantity_options, feedback_name, call, smf, slices, evaluation, run>>

\* lsq_fit(smf, hmf, smf_model) of SMF Analysis called on the table of
\* redshift 0 with a feedback model whose initial guess was replaced: the run
\* of one slice, from line 19 on.
LsqFitInjected ==
    /\ Idle
    /\ \E guess \in ParamVectors(feedback_name) :
          smf' = [pc |-> "fitting", fitting_method |-> "least_squares",
                  bound |-> "lsq_fit", n |-> 1, i |-> 0, cut |-> log_ndfs[0], hmf |-> 1,
                  model |-> [FeedbackModel(feedback_name, Num(m_crit))
                                EXCEPT !.initial_guess = guess],
                  x |-> <<>>, evals |-> 0, parameter |-> <<>>, modelled_smf |-> <<>>,
                  cost |-> <<>>, exc |-> ""]
    /\ UNCHANGED <<log_ndfs, z_model, quantity_options, feedback_name, call, fit, slices, evaluation, run>>

NextGuess ==
    \/ FitStartInjected
    \/ FitEvaluate
    \/ FitFinish
    \/ FitReturn
    \/ LsqFitInjected
    \/ SMFEvaluate
    \/ SMFFitReturn
    \/ SMFReturn
    \/ SMFTake

SpecGuess == InitRuns /\ [][NextGuess]_vars

----------------------------------------------------------------------------
(* The calibrations of the redshift slices of one model, with no locking:  *)
(* the steps of the slices interleave in any order.  The calibration of    *)
(* slice z makes z the current redshift of the model and calls             *)
(* lsq_fit(model); slices[z] is that calibration:                          *)
(*   method  the backend                                                   *)
(*   evals   the cost evaluations made so far                              *)
(*   reads   the redshifts whose observations its evaluations read         *)

NoOtherRun == call.op = "none" /\ fit.pc = "idle" /\ smf.pc = "idle"

\* The fit of slice z is requested: model._z becomes z, lsq_fit starts.
SliceStart(z) ==
    /\ NoOtherRun
    /\ slices[z].pc = "idle"
    /\ z_model' = z
    /\ \E method \in Methods :
          slices' = [slices EXCEPT ![z] = [pc |-> "optimizing", method |-> method,
                                          evals |-> 0, reads |-> {}, exc |-> ""]]
    /\ UNCHANGED <<log_ndfs, quantity_options, feedback_name, call, fit, smf, evaluation, run>>

\* One evaluation of cost_function(params, model, out) by the optimizer of
\* slice z: z is None, so lines 76-80 read the table of model._z.
SliceEvaluate(z) ==
    /\ slices[z].pc = "optimizing"
    /\ slices[z].evals < MaxEvals
    /\ \E params \in Candidates(feedback_name) :
        \E log_phi_mod \in Asked(params, feedback_name, AtZ(None)) :
          LET outcome == cost_function(params, feedback_name, AtZ(None), AtZ(None),
                                       quantity_options, OutOf(slices[z].method), TRUE,
                                       log_phi_mod)
          IN  slices' = [slices EXCEPT ![z] =
                            IF outcome.ret = "raise"
                            THEN [@ EXCEPT !.pc = "raised", !.exc = outcome.exc]
                            ELSE [@ EXCEPT !.evals = @ + 1,
                                           !.reads = @ \cup {z_model}]]
    /\ UNCHANGED <<log_ndfs, z_model, quantity_options, feedback_name, call, fit, smf, evaluation, run>>

\* lines 57-62 for slice z
SliceFinish(z) ==
    /\ slices[z].pc = "optimizing"
    /\ slices[z].evals >= 1
    /\ slices' = [slices EXCEPT ![z] =
                     IF OptimizerResult(@.method, <<>>, TRUE).type # "OptimizeResult"
                     THEN [@ EXCEPT !.pc = "raised", !.exc = "AttributeError"]
                     ELSE [@ EXCEPT !.pc = "returned"]]
    /\ UNCHANGED <<log_ndfs, z_model, quantity_options, feedback_name, call, fit, smf, evaluation, run>>

\* The caller takes the result of slice z.
SliceReturn(z) ==
    /\ slices[z].pc \in {"returned", "raised"}
    /\ slices' = [slices EXCEPT ![z] = [pc |-> "idle"]]
    /\ UNCHANGED <<log_ndfs, z_model, quantity_options, feedback_name, call, fit, smf, evaluation, run>>

NextSlices ==
    \E z \in Redshifts :
        \/ SliceStart(z)
        \/ SliceEvaluate(z)
        \/ SliceFinish(z)
        \/ SliceReturn(z)

SpecSlices == Init /\ [][NextSlices]_vars

----------------------------------------------------------------------------
(* run_model of model/interface.py.  Its argument redshift is None, a      *)
(* redshift index or a list of them; an argument is a record:              *)
(*   type   "None", "int" or "list"                                        *)
(*   items  the index (as its one item) or the items of the list           *)
(* run is the call:                                                        *)
(*   redshift    the argument                                              *)
(*   prior_name  the prior handed to ModelResult                           *)
(*   value       what the call returned: "ModelResult" or "ValueError",    *)
(*               the exception object of line 109                          *)
(*   calibrated  the list of redshifts ModelResult was built with, <<>>    *)
(*               when none was built                                       *)
(*   built       ModelResult was constructed                               *)

\* The largest redshift index a caller passes: one beyond the dataset.
MaxRedshiftArgument == 2

RedshiftLists == SeqsUpTo(0..MaxRedshiftArgument, 2)

RedshiftArguments ==
    {[type |-> "None", items |-> <<>>]}
    \cup {[type |-> "int", items |-> <<i>>] : i \in 0..MaxRedshiftArgument}
    \cup {[type |-> "list", items |-> l] : l \in RedshiftLists}

\* Python's truth value of the argument: None, 0 and the empty list are false.
Truth(redshift) ==
    CASE redshift.type = "None" -> FALSE
      [] redshift.type = "int" -> redshift.items[1] # 0
      [] redshift.type = "list" -> redshift.items # <<>>

\* list(log_ndfs.keys()): the redshifts of the loaded dataset, ascending.
Keys(ndfs) == [i \in 1..Cardinality(DOMAIN ndfs) |-> i - 1]

\* model.helper.make_list: a list stays, anything else becomes a one-item list.
make_list(redshift) == redshift.items

\* model.helper.is_sublist: every item of the first list is in the second.
is_sublist(list1, list2) ==
    \A i \in 1..Len(list1) : \E j \in 1..Len(list2) : list1[i] = list2[j]

PriorArguments == {"None", "uniform", "successive"}
FeedbackArguments == Variants \cup {"changing"}

\* lines 111-115
PriorOf(prior_name, name) ==
    IF prior_name = "None"
    THEN (IF name = "changing" THEN "successive" ELSE "uniform")
    ELSE prior_name

\* lines 104-107: the list of redshifts the model is to be calibrated for.
SelectedRedshifts(redshift, ndfs) ==
    IF ~Truth(redshift) THEN Keys(ndfs) ELSE make_list(redshift)

\* lines 101-128: the call returns the exception object when the redshifts are
\* not those of the dataset, else the ModelResult built with them.
run_model(name, prior_name, redshift, ndfs) ==
    LET selected == SelectedRedshifts(redshift, ndfs)
    IN  IF Truth(redshift) /\ ~is_sublist(selected, Keys(ndfs))
        THEN [pc |-> "returned", redshift |-> redshift, prior_name |-> "",
              value |-> "ValueError", calibrated |-> <<>>, built |-> FALSE]
        ELSE [pc |-> "returned", redshift |-> redshift,
              prior_name |-> PriorOf(prior_name, name),
              value |-> "ModelResult", calibrated |-> selected, built |-> TRUE]

RunModel ==
    /\ Idle
    /\ run.pc = "idle"
    /\ \E name \in FeedbackArguments, prior_name \in PriorArguments,
          redshift \in RedshiftArguments :
          run' = run_model(name, prior_name, redshift, log_ndfs)
    /\ UNCHANGED <<log_ndfs, z_model, quantity_options, feedback_name, call, fit, smf, slices, evaluation>>

\* The caller takes what the call handed back.
RunTake ==
    /\ run.pc \in {"returned", "raised"}
    /\ run' = NoRun
    /\ UNCHANGED <<log_ndfs, z_model, quantity_options, feedback_name, call, fit, smf, slices, evaluation>>

NextInterface ==
    \/ RunModel
    \/ RunTake

SpecInterface == Init /\ [][NextInterface]_vars

----------------------------------------------------------------------------
(* Properties of the cost functions.                                       *)

CostCall == call.op \in {"cost_function", "smf_cost_function"}

\* The declared bounds of the variant are violated: some parameter is <= 0 or on
\* or beyond its bound.
ViolatesBounds(params) ==
    \E i \in 1..Len(params) :
        \/ LessEq(params[i], Num(0))
        \/ LessEq(update_bounds(feedback_name).upper[i], params[i])

\* A float of magnitude at least 1e29.
AtLeast1e29(x) == x.k = "big" /\ x.n >= 29

IsSentinel(outcome) == outcome.ret = "value" /\ AtLeast1e29(outcome.val)

\* C1: whenever a parameter is <= 0 or on or outside its bound, the cost function
\* returns the sentinel, a value of magnitude at least 1e29.
C1_SentinelOnBoundViolation ==
    CostCall /\ ViolatesBounds(call.params) => IsSentinel(call.outcome)

\* C2: a call whose parameters violate the bounds returns without the abundance
\* model having been evaluated and without the feedback function having been
\* inverted.
C2_NoEvaluationOnBoundViolation ==
    CostCall /\ ViolatesBounds(call.params)
        => ~call.outcome.evaluated /\ ~call.outcome.inverted

\* C3: with parameters within bounds, a non-finite predicted abundance makes the
\* cost function return the sentinel, with no residuals and no weights computed.
C3_SentinelOnNonFinitePrediction ==
    CostCall /\ ~ViolatesBounds(call.params) /\ ~AllFinite(call.outcome.mod)
        => /\ IsSentinel(call.outcome)
           /\ call.outcome.res = <<>>
           /\ call.outcome.weights = <<>>

\* Feasible: the parameters are within bounds and every prediction is finite.
Feasible == ~ViolatesBounds(call.params) /\ call.outcome.evaluated /\ AllFinite(call.outcome.mod)

\* The same evaluation in residual-vector mode.
SameCallInResMode ==
    cost_function(call.params, feedback_name, AtZ(call.z), AtZ(None), quantity_options,
                  "res", call.weighted, call.outcome.mod)

SumOfSquares(a) == SumSeq([i \in 1..Len(a) |-> Mul(a[i], a[i])])

\* C4: for feasible parameters the scalar output equals the sum of the squares of
\* the entries of the residual-vector output of the same evaluation (and where
\* one mode raises, the other raises the same exception).
C4_ScalarIsSumOfSquares ==
    call.op = "cost_function" /\ call.out = "cost" /\ Feasible
        => \/ /\ SameCallInResMode.ret = "array"
              /\ call.outcome.ret = "value"
              /\ call.outcome.val = SumOfSquares(SameCallInResMode.arr)
           \/ /\ SameCallInResMode.ret = "raise"
              /\ call.outcome.ret = "raise"
              /\ call.outcome.exc = SameCallInResMode.exc

C4_Witness ==
    /\ call.op = "cost_function" /\ call.out = "cost" /\ call.weighted /\ Feasible
    /\ call.outcome.ret = "value"
    /\ Len(call.outcome.res) = 2
    /\ call.outcome.res[1] # Num(0) /\ call.outcome.res[2] # Num(0)
    /\ AllFinite(call.outcome.weights)
    /\ call.outcome.val # SumSeq(SameCallInResMode.arr)

\* The antilogarithm 10**x of a residual in log space.
Antilog(x) == IF x.k = "log" THEN Rat(x.n, x.d) ELSE Pow10(x)

----------------------------------------------------------------------------
(* Properties of the weights.                                              *)

\* The uncertainty of a row: half the distance of its error bars in linear space.
HalfWidth(r) == Div(Sub(Pow10(Add(r.phi, r.hi)), Pow10(Sub(r.phi, r.lo))), Num(2))

FiniteRows(t) == {i \in 1..Len(t) : IsFinite(HalfWidth(t[i]))}

\* The largest finite uncertainty of a table that has one.
LargestFinite(t) ==
    HalfWidth(t[CHOOSE i \in FiniteRows(t) :
                    \A j \in FiniteRows(t) : LessEq(HalfWidth(t[j]), HalfWidth(t[i]))])

WeightsCall == call.op = "calculate_weights"

\* C6: with every uncertainty finite and relative=False the weight of a row is
\* exactly 1/uncertainty, the uncertainty being
\* (10**(log_phi + upper) - 10**(log_phi - lower)) / 2.
C6_WeightIsInverseUncertainty ==
    WeightsCall /\ ~call.relative /\ FiniteRows(AtZ(call.z)) = 1..Len(AtZ(call.z))
        => /\ Len(call.outcome.arr) = Len(AtZ(call.z))
           /\ \A i \in 1..Len(AtZ(call.z)) :
                 LET r == AtZ(call.z)[i]
                     width == Sub(Pow10(Add(r.phi, r.hi)), Pow10(Sub(r.phi, r.lo)))
                     w == call.outcome.arr[i]
                 IN  w.k = "fin" /\ Mul(w, width) = Num(2)

C6_Witness ==
    /\ WeightsCall /\ ~call.relative /\ FiniteRows(AtZ(call.z)) = 1..Len(AtZ(call.z))
    /\ Len(call.outcome.arr) = 2
    /\ call.outcome.arr[1] = Rat(200, 99)
    /\ call.outcome.arr[2] = Rat(20, 9)

\* C7: every row whose uncertainty is not finite has it replaced by ten times the
\* largest finite uncertainty of the same table, so that its weight is the
\* inverse of that value (divided by the observed density when relative).
C7_NonFiniteReplacedByTenTimesLargest ==
    WeightsCall /\ FiniteRows(AtZ(call.z)) # {}
        => \A i \in (1..Len(AtZ(call.z))) \ FiniteRows(AtZ(call.z)) :
              LET large == Mul(Num(10), LargestFinite(AtZ(call.z)))
              IN  call.outcome.arr[i] =
                     Div(Num(1), IF call.relative
                                 THEN Div(large, Pow10(AtZ(call.z)[i].phi))
                                 ELSE large)

\* C8: in a table with at least one finite uncertainty, every row whose
\* uncertainty was not finite gets a finite weight that is no larger than the
\* weight of any row with a finite uncertainty, relative or not.
C8_SubstitutedRowsWeighLeast ==
    WeightsCall /\ FiniteRows(AtZ(call.z)) # {}
        => \A i \in (1..Len(AtZ(call.z))) \ FiniteRows(AtZ(call.z)) :
              /\ IsFinite(call.outcome.arr[i])
              /\ \A j \in FiniteRows(AtZ(call.z)) :
                    LessEq(call.outcome.arr[i], call.outcome.arr[j])

\* The table the weights of the call were computed from, and whether they were
\* asked to be relative.
WeightsTable == IF call.op = "cost_function" THEN AtZ(None) ELSE AtZ(call.z)
WeightsRelative ==
    IF call.op = "cost_function" THEN quantity_options.relative_weights ELSE call.relative

----------------------------------------------------------------------------
(* Properties of lsq_fit.                                                  *)

\* C10: with any of the four supported backends lsq_fit does not raise, unless
\* the model is misconfigured (an unknown fitting space).
C10_SupportedBackendNeverRaises ==
    fit.pc = "raised" /\ fit.method \in Methods
        => quantity_options.fitting_space \notin {"log", "linear"}

\* C11: when the optimizer's result says success is false, lsq_fit warns and
\* returns the optimizer's point unchanged: the step that ends the optimization
\* hands back fit.x as it stood, warns exactly when success is false, and the
\* only exceptions of lsq_fit are NameError (an unknown method, fitting space or
\* out) and the AttributeError of the brute backend, which has no success flag.
C11_NonConvergenceWarnsAndReturns ==
    [][/\ fit.pc = "optimizing" /\ fit'.pc = "returned"
            => fit'.x = fit.x /\ fit'.warned = ~fit'.success
       /\ fit'.pc = "raised" => fit'.exc \in {"NameError", "AttributeError"}]_vars

C11_Witness ==
    /\ fit.pc = "returned" /\ ~fit.success /\ fit.warned
    /\ fit.method = "annealing"
    /\ fit.x = <<Num(1), Num(0)>>

----------------------------------------------------------------------------
(* Properties of misconfiguration.                                         *)

\* C13: under a fitting space that is neither "log" nor "linear" every call of
\* the cost function raises, whatever the parameters; it never returns a cost
\* or the sentinel.
C13_UnknownFittingSpaceAlwaysRaises ==
    call.op = "cost_function" /\ quantity_options.fitting_space \notin {"log", "linear"}
        => call.outcome.ret = "raise"

----------------------------------------------------------------------------
(* Properties of the abundance model of SMF Analysis.                      *)

SMFCall == call.op = "smf_cost_function"

\* The observed masses of the call.
SMFMasses == smf_m_obs(log_ndfs[call.z])

\* HMF_density(m_h) * (m_obs / m_h) * (1 / derivative(m_h, params))
ExpectedDensity(m_obs, m_h) ==
    IF m_h.k = "nan" THEN NaN
    ELSE Mul(Mul(hmf_function(HMFTable, m_h), Div(m_obs, m_h)),
             Div(Num(1), derivative(feedback_name, m_h, call.params)))

InsideVariantBounds(params) ==
    within_bounds(params, <<Num(0), Num(0), Num(0)>>, <<Num(1), PosInf, PosInf>>)

\* C16: with a parameter that is not positive or outside the bounds of the
\* variant the abundance model is left before the feedback function is
\* inverted, and no density is computed.
C16_InfeasibleNeverInverted ==
    SMFCall /\ ~InsideVariantBounds(call.params)
        => ~call.outcome.inverted /\ call.outcome.mod = <<>>

\* C17: with parameters strictly inside the bounds no exception leaves the
\* abundance model: a failed inversion shows as a non-finite density or the
\* sentinel.
C17_InversionFailureNeverEscapes ==
    SMFCall /\ InsideVariantBounds(call.params) => call.outcome.ret # "raise"

\* C19: for the variant "none" and any A in (0, 1), at every mass m > 0 and for
\* every critical mass, the function is exactly A * m and the derivative is
\* exactly A.
C19_NoFeedbackIsLinear ==
    /\ evaluation.op \in {"function", "derivative"}
    /\ evaluation.variant = "none"
    /\ Less(Num(0), evaluation.params[1]) /\ Less(evaluation.params[1], Num(1))
    => evaluation.value = IF evaluation.op = "function"
                          THEN Mul(evaluation.params[1], evaluation.m_h)
                          ELSE evaluation.params[1]

C19_Witness ==
    /\ evaluation.op = "function" /\ evaluation.variant = "none"
    /\ evaluation.m_c = Num(1000) /\ evaluation.m_h = Num(10)
    /\ evaluation.params = <<Rat(1, 100)>>
    /\ evaluation.value = Rat(1, 10)

\* C12: a fit requested with a backend name that is not supported ends in an
\* exception, with no cost function evaluated and no result returned: lsq_fit
\* for its method, fit_SMF_model for its fitting_method and any number of slices.
C12_UnknownBackendIsFatal ==
    /\ fit.pc # "idle" /\ fit.method \notin Methods
          => fit.pc = "raised" /\ fit.evals = 0
    /\ smf.pc # "idle" /\ smf.fitting_method \notin {"least_squares", "mcmc"}
          => smf.pc \in {"loop", "raised"} /\ smf.evals = 0 /\ smf.parameter = <<>>

----------------------------------------------------------------------------
(* Frame of a calibration run.                                             *)

----------------------------------------------------------------------------
(* Independence of the slices.                                             *)

\* C14: however the calibrations of the slices interleave, the cost
\* evaluations of the calibration of slice z read the observations of
\* redshift z only.
C14_SlicesReadOnlyTheirOwn ==
    \A z \in Redshifts : slices[z].pc # "idle" => slices[z].reads \subseteq {z}

----------------------------------------------------------------------------
(* Properties of run_model.                                                *)

\* The caller passed a redshift or a list of redshifts of the dataset.
PassedSubset ==
    /\ run.pc # "idle"
    /\ run.redshift.type # "None"
    /\ run.redshift.items # <<>>
    /\ is_sublist(run.redshift.items, Keys(log_ndfs))

\* C21: a call given a redshift of the dataset, redshift 0 included, or a list
\* of them builds the model for exactly those redshifts; a call given none
\* builds it for every redshift of the dataset.
C21_ExplicitRedshiftsHonoured ==
    /\ PassedSubset => run.built /\ run.calibrated = run.redshift.items
    /\ run.pc # "idle" /\ run.redshift.type = "None"
          => run.built /\ run.calibrated = Keys(log_ndfs)

\* C28: a call given redshifts that are not all in the dataset ends in a raised
\* ValueError: nothing is returned and no model is built.
C28_UnknownRedshiftRaises ==
    /\ run.pc # "idle"
    /\ run.redshift.type # "None"
    /\ ~is_sublist(run.redshift.items, Keys(log_ndfs))
    => run.pc = "raised" /\ ~run.built

----------------------------------------------------------------------------
(* Properties of the backends of lsq_fit.                                  *)

\* The fit has called one of the four backends.
BackendCalled == fit.pc \in {"optimizing", "returned"} /\ fit.method \in Methods

\* The point lies inside or on the bounds the cost function checks.
InsideClosedBounds(x) ==
    \A i \in 1..Len(x) :
        /\ LessEq(update_bounds(feedback_name).lower[i], x[i])
        /\ LessEq(x[i], update_bounds(feedback_name).upper[i])

\* C22: least_squares is given the cost function in residual-vector mode, the
\* initial guess of the variant and its bounds, and its first point is that
\* guess; minimize, annealing and brute are given scalar mode and the same
\* bounds, one pair per parameter; annealing is given maxiter = 1000 and brute
\* Ns = 100; the point of every backend stays within the bounds.
C22_BackendsGetModeGuessAndBounds ==
    BackendCalled =>
        LET bounds == update_bounds(feedback_name)
            a == fit.arguments
        IN  /\ fit.method = "least_squares"
                  => /\ a.out = "res"
                     /\ a.x0 = initial_guess(feedback_name)
                     /\ a.bounds = <<bounds.lower, bounds.upper>>
                     /\ fit.evals = 1 => fit.x = initial_guess(feedback_name)
            /\ fit.method # "least_squares"
                  => /\ a.out = "cost"
                     /\ Len(a.bounds) = NumParams(feedback_name)
                     /\ \A i \in 1..Len(a.bounds) :
                           a.bounds[i] = <<bounds.lower[i], bounds.upper[i]>>
            /\ fit.method = "annealing" => a.maxiter = 1000
            /\ fit.method = "brute" => a.Ns = 100
            /\ fit.evals >= 1 => InsideClosedBounds(fit.x)

C22_Witness ==
    /\ fit.pc = "returned" /\ fit.method = "least_squares" /\ fit.evals = 2
    /\ feedback_name = "both"
    /\ fit.arguments.out = "res"
    /\ fit.x = <<Num(1), Num(0), Num(1)>>

----------------------------------------------------------------------------
(* Properties of the supernova variant.                                    *)

\* An evaluation of the supernova variant at feasible parameters: A in (0, 1)
\* and alpha > 0.
SupernovaEvaluation ==
    /\ evaluation.op \in {"function", "derivative"}
    /\ evaluation.variant = "sn"
    /\ Less(Num(0), evaluation.params[1]) /\ Less(evaluation.params[1], Num(1))
    /\ Less(Num(0), evaluation.params[2])

\* A * (m / m_c)**alpha of the evaluation.
ScaledPower ==
    Mul(evaluation.params[1],
        PowInt(Div(evaluation.m_h, evaluation.m_c), Exponent(evaluation.params[2])))

\* C23: for the supernova variant at feasible (A, alpha), every mass m > 0 and
\* every critical mass m_c, derivative(m) = A * (m / m_c)**alpha and
\* (alpha + 1) * function(m) = A * (m / m_c)**alpha * m, so that
\* (alpha + 1) * function(m) = m * derivative(m): the derivative is that of
\* the power law function.
C23_SupernovaPowerLaw ==
    SupernovaEvaluation =>
        LET m == evaluation.m_h
            alpha1 == Add(evaluation.params[2], Num(1))
        IN  /\ evaluation.op = "derivative"
                  => /\ evaluation.value = ScaledPower
                     /\ Mul(m, evaluation.value) =
                           Mul(alpha1, feedback_function("sn", evaluation.m_c, m,
                                                         evaluation.params))
            /\ evaluation.op = "function"
                  => /\ Mul(alpha1, evaluation.value) = Mul(ScaledPower, m)
                     /\ Mul(alpha1, evaluation.value) =
                           Mul(m, feedback_derivative("sn", evaluation.m_c, m,
                                                      evaluation.params))

C23_Witness ==
    /\ SupernovaEvaluation
    /\ evaluation.op = "function"
    /\ evaluation.params = <<Rat(1, 2), Num(2)>>
    /\ evaluation.m_c = Num(m_crit) /\ evaluation.m_h = Num(1000)
    /\ evaluation.value = Rat(5000000, 3)

----------------------------------------------------------------------------
(* Properties of the initial guesses.                                      *)

\* The cost function returned the value it returns for parameters out of bounds.
IsBoundSentinel(outcome) == outcome.ret = "value" /\ outcome.val = Big(10)

\* C24: the initial guess of the feedback model of a slice has one component
\* per parameter of the variant, is (0.01), (0.01, 1) or (0.01, 1, 1), lies
\* strictly inside the bounds the cost function checks, and is the point of the
\* first evaluation of the fit, which does not return the sentinel whatever the
\* inversion answers.
C24_InitialGuessInsideBounds ==
    smf.pc = "fitting" =>
        LET guess == smf.model.initial_guess
            name == smf.model.name
        IN  /\ Len(guess) = NumParams(name)
            /\ guess = CASE name = "none" -> <<Rat(1, 100)>>
                          [] name = "sn" -> <<Rat(1, 100), Num(1)>>
                          [] name = "both" -> <<Rat(1, 100), Num(1), Num(1)>>
            /\ within_bounds(guess, <<Num(0), Num(0), Num(0), Num(0)>>,
                             <<Num(1), PosInf, PosInf, Num(1)>>)
            /\ smf.bound = "lsq_fit" /\ smf.evals = 1 /\ smf.cut # <<>>
                  => /\ smf.x = guess
                     /\ \A inv \in stellar_to_halo_mass(name, guess, smf_m_obs(smf.cut)) :
                           ~IsBoundSentinel(smf_cost_function(guess, name, HMFTable,
                                                              smf.cut, inv))

C24_Witness ==
    /\ smf.pc = "fitting" /\ smf.bound = "lsq_fit" /\ smf.evals = 1
    /\ smf.model.name = "both"
    /\ Len(smf.cut) = 2
    /\ smf.x = <<Rat(1, 100), Num(1), Num(1)>>

----------------------------------------------------------------------------
(* Properties of the cuts of fit_SMF_model.                                *)

\* The rows of the SMF the claim lets through.
Admitted(rows, name, m_c) ==
    {i \in 1..Len(rows) :
        /\ Greater(rows[i].phi, Rat(1, 1000000))
        /\ name = "sn" => Less(rows[i].m, m_c)}

\* C25: every row handed to the backend has a density strictly above 1e-6 and,
\* for the variant 'sn', a mass strictly below the critical mass; no other row
\* is dropped, so for the other variants no mass is cut.
C25_RowsHandedToBackend ==
    evaluation.op = "cut" =>
        LET rows == evaluation.rows
            kept == evaluation.kept
            admitted == Admitted(rows, evaluation.variant, evaluation.m_c)
        IN  /\ \A j \in 1..Len(kept) :
                  /\ Greater(kept[j].phi, Rat(1, 1000000))
                  /\ evaluation.variant = "sn" => Less(kept[j].m, evaluation.m_c)
            /\ Len(kept) = Cardinality(admitted)
            /\ \A i \in admitted : \E j \in 1..Len(kept) : kept[j] = rows[i]

C25_Witness ==
    /\ evaluation.op = "cut" /\ evaluation.variant = "sn"
    /\ evaluation.m_c = Num(m_crit)
    /\ evaluation.rows = <<[m |-> Num(1), phi |-> Rat(1, 10)],
                           [m |-> Num(m_crit), phi |-> Rat(1, 10)]>>
    /\ evaluation.kept = <<[m |-> Num(1), phi |-> Rat(1, 10)]>>

----------------------------------------------------------------------------
(* Properties of the loop of fit_SMF_model.                                *)

\* C26: each pass of the loop starts the fit of slice i from nothing (no point,
\* no evaluation), on the rows of slice i, with the HMF hmfs[i + 1] and a newly
\* built feedback model; the end of the fit appends its point, its modelled
\* SMF and its cost to the three lists and leaves the earlier entries alone;
\* the lists returned have one entry per slice, in the order of the slices.
C26_OneFitPerSlice ==
    [][/\ smf.pc = "loop" /\ smf'.pc = "fitting"
             => /\ smf'.x = <<>> /\ smf'.evals = 0
                /\ smf'.hmf = smf.i + 1
                /\ smf'.cut = CutSlice(log_ndfs[smf.i], feedback_name, Num(m_crit))
                /\ smf'.model = FeedbackModel(feedback_name, Num(m_crit))
                /\ smf'.parameter = smf.parameter
       /\ smf.pc = "fitting" /\ smf'.pc = "loop"
             => /\ smf'.parameter = Append(smf.parameter, smf.x)
                /\ smf'.modelled_smf = Append(smf.modelled_smf, smf.i)
                /\ smf'.cost = Append(smf.cost, smf.i)
                /\ smf'.i = smf.i + 1
       /\ smf'.pc = "returned"
             => /\ Len(smf'.parameter) = smf'.n
                /\ smf'.modelled_smf = [j \in 1..smf'.n |-> j - 1]
                /\ smf'.cost = [j \in 1..smf'.n |-> j - 1]]_vars

C26_Witness ==
    /\ smf.pc = "returned" /\ smf.n = 2
    /\ smf.bound = "lsq_fit" /\ smf.model.name = "none"
    /\ smf.hmf = 2
    /\ Len(smf.parameter) = 2
    /\ smf.parameter[1] # smf.parameter[2]
    /\ smf.modelled_smf = <<0, 1>>

----------------------------------------------------------------------------
(* Properties of fits from an injected guess.                              *)

\* The point lies outside the closed bounds of the variant.
OutsideBounds(x) == ~InsideClosedBounds(x)

\* C27: a least-squares fit whose initial guess lies outside the bounds does
\* not raise and returns a point within the bounds.
C27_ViolatingGuessIsClipped ==
    /\ fit.pc \in {"returned", "raised"} /\ fit.method = "least_squares"
       /\ OutsideBounds(fit.arguments.x0)
          => fit.pc = "returned" /\ InsideClosedBounds(fit.x)
    /\ smf.pc \in {"returned", "raised"} /\ OutsideBounds(smf.model.initial_guess)
          => /\ smf.pc = "returned"
             /\ \A j \in 1..Len(smf.parameter) : InsideClosedBounds(smf.parameter[j])

----------------------------------------------------------------------------
(* Properties of a cost evaluation at an explicit redshift.                *)

\* C29: in a call of the cost function with an explicit redshift z the weights
\* applied to the residuals of slice z are those of the table of slice z, as
\* the observations and the prediction are.
C29_WeightsOfTheSameSlice ==
    call.op = "cost_function" /\ call.z # None /\ call.outcome.weights # <<>>
        => /\ Len(call.outcome.res) = Len(log_ndfs[call.z])
           /\ call.outcome.weights =
                 calculate_weights(log_ndfs[call.z], quantity_options.relative_weights)

----------------------------------------------------------------------------
(* Properties of the residual vector.                                      *)

\* The observation rows of the slice the call evaluates.
RowsOfCall == IF call.op = "cost_function" THEN AtZ(call.z) ELSE log_ndfs[call.z]

\* C30: in residual-vector mode every call that returns hands back a vector
\* with one entry per observation row of the slice, whatever the parameters
\* and the prediction.
C30_ResidualVectorKeepsItsLength ==
    CostCall /\ call.out = "res" /\ call.outcome.ret # "raise"
        => call.outcome.ret = "array" /\ Len(call.outcome.arr) = Len(RowsOfCall)

====
